---- MODULE Spec2Model ----
(***************************************************************************)
(* COMChip battery-status frame decoders.                                  *)
(*                                                                         *)
(*   com3-gm.c  : calculate_checksum, process_comchip_status_packet        *)
(*                (7-byte frame: SYNC CID Status VoltH VoltL Byte2 CS)     *)
(*   com-5cg.c  : calculate_checksum, decode_battery_status, main          *)
(*                (6-byte frame: SYNC CID Status VoltH VoltL CS)           *)
(*   com3-cg.c  : ODM_com_checksum_calc, main (6-byte frame)               *)
(*                                                                         *)
(* Byte buffers are sequences of 0..255; C index k is TLA+ index k+1.      *)
(***************************************************************************)
EXTENDS Integers, Sequences, FiniteSets, TLC

VARIABLES
    \* ---- process_comchip_status_packet (com3-gm.c) ----
    pc,               \* "call" before the call, "ret" after it returned, "idle" when unused
    received_packet,  \* the caller's byte buffer
    packet_len,       \* the uint16_t length argument
    out_data,         \* *out_data, the caller's BatteryStatusData
    ret,              \* the bool return value
    log,              \* the lines the call printed, as <<kind, a, b>>
    reads,            \* the C indices of received_packet the call read
    cs_calls,         \* how many times the call invoked calculate_checksum
    \* ---- main of com-5cg.c / com3-cg.c ----
    prog,             \* which program runs: "com-5cg", "com3-cg" or "none"
    mpc,              \* "start" / "exit" / "idle"
    packet,           \* the 6-byte packet[] / frame[] array
    calculated,       \* the local holding the computed checksum
    out,              \* the lines main printed
    exit_code,        \* main's return value
    \* ---- calculate_checksum, statement by statement ----
    cpc,              \* "loop" / "reduce" / "done" / "idle"
    cid,              \* the seed argument
    data_buffer,      \* the data bytes
    len,              \* the uint8_t length argument
    i,                \* the loop index
    tmp,              \* the uint16_t accumulator
    reductions,       \* how many times the `tmp -= 255u` branch was taken
    cs_ret            \* the returned byte

vars == <<pc, received_packet, packet_len, out_data, ret, log, reads, cs_calls,
          prog, mpc, packet, calculated, out, exit_code,
          cpc, cid, data_buffer, len, i, tmp, reductions, cs_ret>>

decodeVars == <<pc, received_packet, packet_len, out_data, ret, log, reads, cs_calls>>
mainVars   == <<prog, mpc, packet, calculated, out, exit_code>>
ckVars     == <<cpc, cid, data_buffer, len, i, tmp, reductions, cs_ret>>

----------------------------------------------------------------------------
(* Bounds of the model *)

\* longest data sequence handed to calculate_checksum in the stepwise run
MaxLen == 4
\* longest buffer / largest packet_len handed to the 7-byte decoder
MaxPacketLen == 8

----------------------------------------------------------------------------
(* Fixed-width integer arithmetic *)

RECURSIVE BitAndN(_, _, _)
BitAndN(a, b, n) ==
    IF n = 0 THEN 0
    ELSE (IF a % 2 = 1 /\ b % 2 = 1 THEN 1 ELSE 0) + 2 * BitAndN(a \div 2, b \div 2, n - 1)

RECURSIVE BitOrN(_, _, _)
BitOrN(a, b, n) ==
    IF n = 0 THEN 0
    ELSE (IF a % 2 = 1 \/ b % 2 = 1 THEN 1 ELSE 0) + 2 * BitOrN(a \div 2, b \div 2, n - 1)

\* a & b and a | b on 16-bit operands
BitAnd(a, b) == BitAndN(a, b, 16)
BitOr(a, b)  == BitOrN(a, b, 16)

\* ~a, seen through its low 16 bits (every use masks the result to 8 or 16 bits)
BitNot16(a) == 65535 - (a % 65536)

\* (uint16_t) x
U16(x) == x % 65536

\* (uint8_t) x
U8(x) == x % 256

\* p[k] for a C index k
Byte(p, k) == p[k + 1]

\* &p[k] : the bytes of p from C index k on
From(p, k) == SubSeq(p, k + 1, Len(p))

----------------------------------------------------------------------------
(* com3-gm.c : constants *)

COMCHIP_SYNC_BYTE == 85
COMCHIP_CID_GET_STATUS_RESP == 129
COMCHIP_STATUS_FRAME_LEN == 7
STATUS_BIT_BATTERY_ERROR == 128
STATUS_BIT_UNDER_VOLTAGE == 64
STATUS_BIT_NOT_SUPPORTED == 32

----------------------------------------------------------------------------
(* com3-gm.c : calculate_checksum *)

\* tmp += data_buffer[i];   (uint16_t)
ChecksumAdd(t, b) == U16(t + b)

\* the reduction with a modulo-256 wraparound in place of `- 255u`
ChecksumReduce_Mod256(t) == IF t >= 256 THEN U16(t - 256) ELSE t

\* the reduction that never fires
ChecksumReduce_Never(t) == t

\* if (tmp >= 256u) { tmp -= 255u; }
ChecksumReduce(t) == IF t >= 256 THEN U16(t - 255) ELSE t

\* the for loop, from index k with accumulator t
RECURSIVE ChecksumLoop(_, _, _, _)
ChecksumLoop(t, buf, k, n) ==
    IF k < n
    THEN ChecksumLoop(ChecksumReduce(ChecksumAdd(t, Byte(buf, k))), buf, k + 1, n)
    ELSE t

\* tmp = (~tmp) & 0x00FFu; return (uint8_t)tmp;
ChecksumFinish(t) == U8(BitAnd(BitNot16(t), 255))

calculate_checksum(c, buf, n) == ChecksumFinish(ChecksumLoop(c, buf, 0, n))

----------------------------------------------------------------------------
(* com3-gm.c : process_comchip_status_packet *)

\* if (packet_len != COMCHIP_STATUS_FRAME_LEN) return false;
LengthOk(n) == n = COMCHIP_STATUS_FRAME_LEN

\* a sync check that accepts every first byte
SyncOk_Any(p) == TRUE

\* if (received_packet[0] != COMCHIP_SYNC_BYTE) return false;
SyncOk(p) == Byte(p, 0) = COMCHIP_SYNC_BYTE

\* if (received_packet[1] != COMCHIP_CID_GET_STATUS_RESP) return false;
CidOk(p) == Byte(p, 1) = COMCHIP_CID_GET_STATUS_RESP

\* calculated_cs = calculate_checksum(received_packet[1], &received_packet[2], FRAME_LEN - 3)
CalculatedCs(p) ==
    calculate_checksum(Byte(p, 1), From(p, 2), COMCHIP_STATUS_FRAME_LEN - 3)

\* received_cs = received_packet[packet_len - 1]
ReceivedCs(p, n) == Byte(p, n - 1)

\* the checks with the command id tested before the sync byte
Verdict_CidBeforeSync(p, n) ==
    IF ~LengthOk(n) THEN "size"
    ELSE IF ~CidOk(p) THEN "cid"
    ELSE IF ~SyncOk(p) THEN "sync"
    ELSE IF CalculatedCs(p) # ReceivedCs(p, n) THEN "checksum"
    ELSE "ok"

\* the chain of early returns: which check, if any, rejects the frame
Verdict(p, n) ==
    IF ~LengthOk(n) THEN "size"
    ELSE IF ~SyncOk(p) THEN "sync"
    ELSE IF ~CidOk(p) THEN "cid"
    ELSE IF CalculatedCs(p) # ReceivedCs(p, n) THEN "checksum"
    ELSE "ok"

\* the voltage assembled low byte first
BatteryVoltage_LittleEndian(hi, lo) == BitOr(U16(lo * 256), hi)

\* (uint16_t)(voltage_high_byte << 8) | voltage_low_byte
BatteryVoltage(hi, lo) == BitOr(U16(hi * 256), lo)

\* (status_byte & STATUS_BIT_BATTERY_ERROR) != 0
HasBatteryError(s) == BitAnd(s, STATUS_BIT_BATTERY_ERROR) # 0

\* (status_byte & STATUS_BIT_UNDER_VOLTAGE) != 0
IsUnderVoltage(s) == BitAnd(s, STATUS_BIT_UNDER_VOLTAGE) # 0

\* (status_byte & STATUS_BIT_NOT_SUPPORTED) == 0
IsBatterySupported(s) == BitAnd(s, STATUS_BIT_NOT_SUPPORTED) = 0

\* the assignments to *out_data after the packet was verified
DecodeFields(p) ==
    [battery_voltage_mV   |-> BatteryVoltage(Byte(p, 3), Byte(p, 4)),
     has_battery_error    |-> HasBatteryError(Byte(p, 2)),
     is_under_voltage     |-> IsUnderVoltage(Byte(p, 2)),
     is_battery_supported |-> IsBatterySupported(Byte(p, 2))]

\* the whole call: return value, *out_data afterwards, the lines printed,
\* the indices of received_packet read and the calls of calculate_checksum
process_comchip_status_packet(p, n, od) ==
    LET v == Verdict(p, n) IN
    CASE v = "size" ->
           [ret |-> FALSE, out_data |-> od,
            log |-> << <<"InvalidFrameSize", COMCHIP_STATUS_FRAME_LEN, n>> >>,
            reads |-> {}, cs_calls |-> 0]
      [] v = "sync" ->
           [ret |-> FALSE, out_data |-> od,
            log |-> << <<"InvalidSync", COMCHIP_SYNC_BYTE, Byte(p, 0)>> >>,
            reads |-> {0}, cs_calls |-> 0]
      [] v = "cid" ->
           [ret |-> FALSE, out_data |-> od,
            log |-> << <<"InvalidCID", COMCHIP_CID_GET_STATUS_RESP, Byte(p, 1)>> >>,
            reads |-> {0, 1}, cs_calls |-> 0]
      [] v = "checksum" ->
           [ret |-> FALSE, out_data |-> od,
            log |-> << <<"ChecksumMismatch", CalculatedCs(p), ReceivedCs(p, n)>> >>,
            reads |-> 0 .. (n - 1), cs_calls |-> 1]
      [] OTHER ->
           [ret |-> TRUE, out_data |-> DecodeFields(p),
            log |-> << <<"Verified", 0, 0>> >>,
            reads |-> 0 .. (n - 1), cs_calls |-> 1]

----------------------------------------------------------------------------
(* The calls of process_comchip_status_packet that are explored *)

SyncVals   == {85, 170}
CidVals7   == {129, 128}
StatusVals == {0, 31, 32, 63, 64, 95, 96, 127, 128, 159, 160, 191, 192, 223, 224, 255}
VoltHVals  == {150, 255}
VoltLVals  == {254, 0}
Byte2Vals  == {0, 255}

\* all 7-byte frames over the byte values above, with every checksum byte
Frames7 ==
    {<<s, c, st, vh, vl, b2, cs>> :
        s \in SyncVals, c \in CidVals7, st \in StatusVals,
        vh \in VoltHVals, vl \in VoltLVals, b2 \in Byte2Vals, cs \in 0 .. 255}

\* good_packet and undervoltage_packet of main, their checksum bytes as the
\* algorithm computes them, and good_packet with a wrong sync byte
CoreFrames ==
    {<<85, 129, 0, 150, 254, 0, 232>>,
     <<85, 129, 64, 150, 254, 0, 168>>,
     <<170, 129, 0, 150, 254, 0, 232>>}

\* the first m bytes of frame f followed by zero bytes
Resize(f, m) == [k \in 1 .. m |-> IF k <= Len(f) THEN f[k] ELSE 0]

\* the packet_len values tried with buffers of every length
LenVals == (0 .. MaxPacketLen) \cup {65535}

\* <<buffer length, packet_len>>: every combination in which the bytes the
\* call reads exist (packet_len = 7 needs 7 readable bytes)
LenPairs ==
    {t \in (0 .. MaxPacketLen) \X LenVals :
        t[2] = COMCHIP_STATUS_FRAME_LEN => t[1] >= COMCHIP_STATUS_FRAME_LEN}

\* <<buffer, packet_len>>: the 7-byte frames with their own length, and
\* buffers of every length with every packet_len
Inputs ==
    {<<f, COMCHIP_STATUS_FRAME_LEN>> : f \in Frames7}
    \cup {<<Resize(f, t[1]), t[2]>> : f \in CoreFrames, t \in LenPairs}

\* status_data of main is uninitialised when the first call is made
OutDataInit ==
    {[battery_voltage_mV |-> 0, has_battery_error |-> FALSE,
      is_under_voltage |-> FALSE, is_battery_supported |-> FALSE],
     [battery_voltage_mV |-> 65535, has_battery_error |-> TRUE,
      is_under_voltage |-> TRUE, is_battery_supported |-> TRUE]}

DecodeIdle ==
    /\ pc = "idle" /\ received_packet = <<>> /\ packet_len = 0
    /\ out_data \in {od \in OutDataInit : od.battery_voltage_mV = 0}
    /\ ret = FALSE /\ log = <<>> /\ reads = {} /\ cs_calls = 0

DecodeInit ==
    /\ pc = "call"
    /\ \E inp \in Inputs : received_packet = inp[1] /\ packet_len = inp[2]
    /\ out_data \in OutDataInit
    /\ ret = FALSE /\ log = <<>> /\ reads = {} /\ cs_calls = 0

\* main calls process_comchip_status_packet(packet, len, &status_data)
Process ==
    /\ pc = "call"
    /\ LET r == process_comchip_status_packet(received_packet, packet_len, out_data) IN
         /\ ret' = r.ret
         /\ out_data' = r.out_data
         /\ log' = r.log
         /\ reads' = r.reads
         /\ cs_calls' = r.cs_calls
    /\ pc' = "ret"
    /\ UNCHANGED <<received_packet, packet_len>>
    /\ UNCHANGED mainVars
    /\ UNCHANGED ckVars

----------------------------------------------------------------------------
(* com-5cg.c *)

PACKET_LENGTH == 6
DISCHARGE_MASK == 1
BATTERY_SUPPORTED == 32
VOLTAGE_OK_MASK == 64
BATTERY_ERROR_MASK == 128

\* com-5cg.c : calculate_checksum
calculate_checksum_5cg(c, buf, n) == ChecksumFinish(ChecksumLoop(c, buf, 0, n))

\* com-5cg.c : the lines decode_battery_status prints
decode_battery_status(status) ==
    << <<"BatteryStatus", 0, 0>> >>
    \o (IF BitAnd(status, DISCHARGE_MASK) = 0
        THEN << <<"CanBeDischarged", 0, 0>> >> ELSE << >>)
    \o (IF BitAnd(status, BATTERY_SUPPORTED) = 0
        THEN << <<"Supported", 0, 0>> >> ELSE << <<"NotSupported", 0, 0>> >>)
    \o (IF BitAnd(status, VOLTAGE_OK_MASK) = 0
        THEN << <<"VoltageOK", 0, 0>> >> ELSE << <<"VoltageNotOK", 0, 0>> >>)
    \o (IF BitAnd(status, BATTERY_ERROR_MASK) = 0
        THEN << <<"NoError", 0, 0>> >> ELSE << <<"HasError", 0, 0>> >>)

\* com-5cg.c : step 3 of main, the voltage line
VoltageLine_5cg(pk) ==
    LET status    == Byte(pk, 2)
        supported == BitAnd(status, BATTERY_SUPPORTED) = 0
        error     == BitAnd(status, BATTERY_ERROR_MASK) # 0
        voltage_raw == BitOr(U16(Byte(pk, 3) * 256), Byte(pk, 4))
    IN IF supported /\ ~error
       THEN << <<"BatteryVoltage", voltage_raw \div 1000, 0>> >>
       ELSE << <<"VoltageNotDisplayed", 0, 0>> >>

\* com-5cg.c : main
main_5cg ==
    /\ prog = "com-5cg" /\ mpc = "start"
    /\ LET calc     == calculate_checksum_5cg(Byte(packet, 1), From(packet, 2), PACKET_LENGTH - 3)
           received == Byte(packet, 5)
       IN /\ calculated' = calc
          /\ IF calc # received
             THEN /\ out' = << <<"ChecksumMismatch", calc, received>> >>
                  /\ exit_code' = -1
             ELSE /\ out' = << <<"ChecksumValid", 0, 0>> >>
                            \o decode_battery_status(Byte(packet, 2))
                            \o VoltageLine_5cg(packet)
                  /\ exit_code' = 0
    /\ mpc' = "exit"
    /\ UNCHANGED <<prog, packet>>
    /\ UNCHANGED decodeVars
    /\ UNCHANGED ckVars

----------------------------------------------------------------------------
(* com3-cg.c *)

FRAME_SIZE == 6
START_BYTE == 85
NO_BATTERY_ALARM_BIT == 1

\* IS_VALID_FRAME_START(f)
IS_VALID_FRAME_START(f) == Byte(f, 0) = START_BYTE

\* com3-cg.c : ODM_com_checksum_calc
ODM_com_checksum_calc(c, p_data, n) == ChecksumFinish(ChecksumLoop(c, p_data, 0, n))

\* com3-cg.c : main
main_3cg ==
    /\ prog = "com3-cg" /\ mpc = "start"
    /\ LET checksum_calc == ODM_com_checksum_calc(Byte(packet, 1), From(packet, 2), 3)
           voltage_mv    == U16(BitOr(Byte(packet, 3) * 256, Byte(packet, 4)))
       IN IF ~IS_VALID_FRAME_START(packet)
          THEN /\ out' = << <<"InvalidStartByte", 0, 0>> >>
               /\ calculated' = calculated
          ELSE /\ calculated' = checksum_calc
               /\ IF checksum_calc # Byte(packet, 5)
                  THEN out' = << <<"ChecksumMismatch", checksum_calc, Byte(packet, 5)>> >>
                  ELSE IF BitAnd(Byte(packet, 2), NO_BATTERY_ALARM_BIT) = 0
                       THEN out' = << <<"BatteryVoltage", voltage_mv \div 1000, 0>> >>
                       ELSE out' = << <<"NoBatteryAlarm", 0, 0>> >>
    /\ exit_code' = 0
    /\ mpc' = "exit"
    /\ UNCHANGED <<prog, packet>>
    /\ UNCHANGED decodeVars
    /\ UNCHANGED ckVars

----------------------------------------------------------------------------
(* The 6-byte buffers the two mains are run on *)

StatusVals6 == {0, 1, 32, 33, 64, 128, 160, 255}
VoltHVals6  == {150, 109}
VoltLVals6  == {254, 96}
SyncVals6   == {85, 0}

Frames6 ==
    {<<s, c, st, vh, vl, cs>> :
        s \in SyncVals6, c \in CidVals7, st \in StatusVals6,
        vh \in VoltHVals6, vl \in VoltLVals6, cs \in 0 .. 255}

MainIdle ==
    /\ prog = "none" /\ mpc = "idle" /\ packet = <<>>
    /\ calculated = 0 /\ out = <<>> /\ exit_code = 0

MainInit ==
    /\ prog \in {"com-5cg", "com3-cg"}
    /\ mpc = "start"
    /\ packet \in Frames6
    /\ calculated = 0 /\ out = <<>> /\ exit_code = 0

----------------------------------------------------------------------------
(* calculate_checksum, one statement at a time *)

SeedVals == {0, 1, 85, 128, 129, 255}
DataVals == {0, 1, 64, 150, 254, 255}

\* the sequences over S of length at most n
RECURSIVE SeqsUpTo(_, _)
SeqsUpTo(S, n) ==
    IF n = 0 THEN {<<>>}
    ELSE LET shorter == SeqsUpTo(S, n - 1)
         IN shorter \cup {Append(q, b) : q \in {r \in shorter : Len(r) = n - 1}, b \in S}

CkIdle ==
    /\ cpc = "idle" /\ cid = 0 /\ data_buffer = <<>> /\ len = 0
    /\ i = 0 /\ tmp = 0 /\ reductions = 0 /\ cs_ret = 0

\* uint16_t tmp = cid;  i = 0;
CkInit ==
    /\ cpc = "loop"
    /\ cid \in SeedVals
    /\ data_buffer \in SeqsUpTo(DataVals, MaxLen)
    /\ len = Len(data_buffer)
    /\ i = 0
    /\ tmp = cid
    /\ reductions = 0
    /\ cs_ret = 0

\* i < len holds:  tmp += data_buffer[i];
AddByte ==
    /\ cpc = "loop" /\ i < len
    /\ tmp' = ChecksumAdd(tmp, Byte(data_buffer, i))
    /\ cpc' = "reduce"
    /\ UNCHANGED <<cid, data_buffer, len, i, reductions, cs_ret>>
    /\ UNCHANGED decodeVars
    /\ UNCHANGED mainVars

\* if (tmp >= 256u) tmp -= 255u;  i++
Reduce ==
    /\ cpc = "reduce"
    /\ tmp' = ChecksumReduce(tmp)
    /\ reductions' = IF tmp >= 256 THEN reductions + 1 ELSE reductions
    /\ i' = U8(i + 1)
    /\ cpc' = "loop"
    /\ UNCHANGED <<cid, data_buffer, len, cs_ret>>
    /\ UNCHANGED decodeVars
    /\ UNCHANGED mainVars

\* i < len fails:  tmp = (~tmp) & 0x00FFu;  return (uint8_t)tmp;
Finish ==
    /\ cpc = "loop" /\ ~(i < len)
    /\ tmp' = BitAnd(BitNot16(tmp), 255)
    /\ cs_ret' = ChecksumFinish(tmp)
    /\ cpc' = "done"
    /\ UNCHANGED <<cid, data_buffer, len, i, reductions>>
    /\ UNCHANGED decodeVars
    /\ UNCHANGED mainVars

----------------------------------------------------------------------------
(* Specifications *)

\* calls of the 7-byte decoder
Init == DecodeInit /\ MainIdle /\ CkIdle
Next == Process
Spec == Init /\ [][Next]_vars

\* runs of the two 6-byte mains
InitMain6 == DecodeIdle /\ MainInit /\ CkIdle
NextMain6 == main_5cg \/ main_3cg
SpecMain6 == InitMain6 /\ [][NextMain6]_vars

\* runs of calculate_checksum
InitChecksum == DecodeIdle /\ MainIdle /\ CkInit
NextChecksum == AddByte \/ Reduce \/ Finish
SpecChecksum == InitChecksum /\ [][NextChecksum]_vars

TypeOK ==
    /\ pc \in {"idle", "call", "ret"}
    /\ packet_len \in 0 .. 65535
    /\ ret \in BOOLEAN
    /\ out_data.battery_voltage_mV \in 0 .. 65535
    /\ cs_calls \in 0 .. 1
    /\ mpc \in {"idle", "start", "exit"}
    /\ calculated \in 0 .. 255
    /\ exit_code \in {0, -1}
    /\ cpc \in {"idle", "loop", "reduce", "done"}
    /\ cid \in 0 .. 255
    /\ len \in 0 .. 255
    /\ i \in 0 .. 255
    /\ tmp \in 0 .. 65535
    /\ cs_ret \in 0 .. 255

----------------------------------------------------------------------------
(* Properties of process_comchip_status_packet (Spec) *)

ErrorKinds == {"InvalidFrameSize", "InvalidSync", "InvalidCID", "ChecksumMismatch"}

\* C1: the call returns true only for packet_len = 7, byte 0 = 0x55,
\* byte 1 = 0x81 and a checksum byte (byte 6) equal to the checksum of byte 1
\* over bytes 2..5; a call that returns false leaves *out_data as it was.
C1_AcceptOnlyValidAndNoPartialOutput ==
    [][pc' = "ret" =>
          /\ ret' =>
                /\ packet_len' = 7
                /\ Byte(received_packet', 0) = 85
                /\ Byte(received_packet', 1) = 129
                /\ calculate_checksum(Byte(received_packet', 1),
                                      SubSeq(received_packet', 3, 6), 4)
                     = Byte(received_packet', 6)
          /\ ~ret' => out_data' = out_data]_vars

\* a frame with good length, sync and command id was rejected on its checksum
\* while the caller's struct held values of its own
C1_Witness ==
    /\ pc = "ret" /\ ret = FALSE
    /\ packet_len = 7
    /\ Byte(received_packet, 0) = 85 /\ Byte(received_packet, 1) = 129
    /\ out_data.battery_voltage_mV = 65535

\* C2: rejection is fail-fast in the order length, sync, command id, checksum
\* and prints exactly one error: a length other than 7 gives the frame-size
\* error with no byte of the buffer read; length 7 with byte 0 # 0x55 gives the
\* sync error with calculate_checksum never called; the command-id and checksum
\* errors appear only when every earlier check passed.
C2_FailFastOrder ==
    pc = "ret" =>
        /\ packet_len # 7 =>
              /\ ~ret
              /\ log = << <<"InvalidFrameSize", 7, packet_len>> >>
              /\ reads = {}
              /\ cs_calls = 0
        /\ (packet_len = 7 /\ Byte(received_packet, 0) # 85) =>
              /\ ~ret
              /\ log = << <<"InvalidSync", 85, Byte(received_packet, 0)>> >>
              /\ cs_calls = 0
        /\ Len(log) = 1
        /\ ~ret <=> log[1][1] \in ErrorKinds
        /\ log[1][1] = "InvalidCID" =>
              packet_len = 7 /\ Byte(received_packet, 0) = 85
        /\ log[1][1] = "ChecksumMismatch" =>
              /\ packet_len = 7 /\ Byte(received_packet, 0) = 85
              /\ Byte(received_packet, 1) = 129

\* a 7-byte frame whose sync byte and command id are both wrong was processed
C2_Witness ==
    /\ pc = "ret" /\ packet_len = 7
    /\ Byte(received_packet, 0) # 85
    /\ Byte(received_packet, 1) # 129

GoodPacket         == <<85, 129, 0, 150, 254, 0, 63>>
UndervoltagePacket == <<85, 129, 64, 150, 254, 0, 255>>
BadChecksumPacket  == <<85, 129, 0, 150, 254, 0, 17>>

\* C4: decoding {0x55,0x81,0x00,0x96,0xFE,0x00,0x3F} returns true with
\* voltage 38654, no battery error, no under-voltage, battery supported.
C4_GoodPacketDecodes ==
    (pc = "ret" /\ received_packet = GoodPacket /\ packet_len = 7) =>
        /\ ret
        /\ out_data = [battery_voltage_mV |-> 38654, has_battery_error |-> FALSE,
                       is_under_voltage |-> FALSE, is_battery_supported |-> TRUE]

\* C5: decoding {0x55,0x81,0x40,0x96,0xFE,0x00,0xFF} passes the checksum
\* check (the computed checksum is 0xFF) and yields is_under_voltage = true.
C5_UndervoltagePacketDecodes ==
    (pc = "ret" /\ received_packet = UndervoltagePacket /\ packet_len = 7) =>
        /\ ret
        /\ CalculatedCs(received_packet) = 255
        /\ out_data.is_under_voltage

\* C6: decoding {0x55,0x81,0x00,0x96,0xFE,0x00,0x11} is rejected with a
\* checksum mismatch reporting calculated 0x3F and received 0x11.
C6_BadChecksumReported ==
    (pc = "ret" /\ received_packet = BadChecksumPacket /\ packet_len = 7) =>
        /\ ~ret
        /\ log = << <<"ChecksumMismatch", 63, 17>> >>

\* bit k of byte b
Bit(b, k) == (b \div (2 ^ k)) % 2

\* C7: for an accepted frame the voltage is 256 * byte 3 + byte 4 (0..65535),
\* has_battery_error is bit 7 of byte 2, is_under_voltage is bit 6 of byte 2,
\* is_battery_supported is the negation of bit 5 of byte 2; byte 5 and the
\* other bits of byte 2 have no influence.
C7_FieldDecoding ==
    (pc = "ret" /\ ret) =>
        /\ out_data.battery_voltage_mV
             = 256 * Byte(received_packet, 3) + Byte(received_packet, 4)
        /\ out_data.battery_voltage_mV \in 0 .. 65535
        /\ out_data.has_battery_error <=> Bit(Byte(received_packet, 2), 7) = 1
        /\ out_data.is_under_voltage <=> Bit(Byte(received_packet, 2), 6) = 1
        /\ out_data.is_battery_supported <=> Bit(Byte(received_packet, 2), 5) = 0

\* a frame with every status bit set and Byte2 = 0xFF was accepted
C7_Witness ==
    /\ pc = "ret" /\ ret
    /\ Byte(received_packet, 2) = 255
    /\ Byte(received_packet, 5) = 255
    /\ out_data.battery_voltage_mV = 38654

----------------------------------------------------------------------------
(* Properties of the 6-byte mains (SpecMain6) *)

SamplePacket == <<85, 129, 0, 150, 254, 63>>

\* C3: calculate_checksum(0x81, {0x00, 0x96, 0xFE}) is 0x3F, so the sample
\* packet {0x55,0x81,0x00,0x96,0xFE,0x3F} passes the checksum comparison of
\* main in com-5cg.c.
C3_SampleVector ==
    (prog = "com-5cg" /\ mpc = "exit" /\ packet = SamplePacket) =>
        /\ calculated = 63
        /\ out[1] = <<"ChecksumValid", 0, 0>>
        /\ exit_code = 0

ReportKinds ==
    {"BatteryStatus", "CanBeDischarged", "Supported", "NotSupported",
     "VoltageOK", "VoltageNotOK", "NoError", "HasError",
     "BatteryVoltage", "VoltageNotDisplayed", "NoBatteryAlarm"}

\* C8: either main prints battery status or voltage only for a buffer whose
\* byte 0 is 0x55 and whose byte 5 is the checksum of byte 1 over bytes 2..4.
C8_ReportOnlyValidFrames ==
    (mpc = "exit" /\ \E k \in 1 .. Len(out) : out[k][1] \in ReportKinds) =>
        /\ Byte(packet, 0) = 85
        /\ Byte(packet, 5)
             = calculate_checksum(Byte(packet, 1), SubSeq(packet, 3, 5), 3)

----------------------------------------------------------------------------
(* Properties of calculate_checksum (SpecChecksum) *)

RECURSIVE SumSeq(_)
SumSeq(q) == IF q = <<>> THEN 0 ELSE Head(q) + SumSeq(Tail(q))

\* the plain 8-bit wraparound checksum: low 8 bits of ~(cid + sum of data)
PlainChecksum(c, q) == 255 - ((c + SumSeq(q)) % 256)

\* C9: when the `tmp -= 255u` reduction fired more than once during a run,
\* the returned checksum differs from the plain 8-bit wraparound checksum.
C9_DiffersFromWraparound ==
    (cpc = "done" /\ reductions > 1) =>
        cs_ret # PlainChecksum(cid, data_buffer)

\* a run finished in which the reduction fired at least twice
C9_Witness == cpc = "done" /\ reductions > 1 /\ len <= 255

====
